---- MODULE Spec2Model ----
(***************************************************************************)
(* reminder-lab: the RemindersHandler class and the Reminder record.       *)
(*                                                                         *)
(* The repository holds two definitions of class RemindersHandler:         *)
(*   src/src/RemindersHandler.ts  (lines 14-173), followed in the same     *)
(*                                file by class Reminder (lines 179-246);  *)
(*   src/unnamed/part_000         (lines 19-162).                          *)
(* Both are modelled.  The variable impl records which class the client    *)
(* constructed; operations of the second file carry the suffix _p0.        *)
(*                                                                         *)
(* Objects are references: heap[id] holds the fields of Reminder object    *)
(* id (ids are given in construction order), and an array of reminders is  *)
(* a sequence of ids.  Strings are sequences of characters, so that        *)
(* toLowerCase, === and includes are computed, not assumed.                *)
(***************************************************************************)
EXTENDS Integers, Sequences, FiniteSets, TLC

\* Bound on the number of Reminder objects constructed (addReminder calls).
MaxReminders == 2
\* Bound on the length of an array the client pushes to.
MaxListLen == 3

VARIABLES
    impl,        \* which RemindersHandler class was constructed
    heap,        \* heap[id]: fields of Reminder object id
    _reminders,  \* the handler's private array: sequence of object ids
    list,        \* the array the client got from the reminders accessor
    op,          \* the last operation called
    arg,         \* its arguments
    ret,         \* its return value
    err          \* the error it threw, or "none"

vars == <<impl, heap, _reminders, list, op, arg, ret, err>>

Main == "RemindersHandler.ts"
P0 == "part_000"

NoError == "none"
InvalidIndex == "ReminderError: Invalid index"
NotYetImplemented == "Not yet implemented"
TypeError == "TypeError: groupings[tag].push is not a function"
NoValue == "undefined"

(***************************************************************************)
(* Strings                                                                 *)
(***************************************************************************)
Str_constructor == <<"c", "o", "n", "s", "t", "r", "u", "c", "t", "o", "r">>

\* String.prototype.toLowerCase on one character of the alphabet in use.
LowerChar(c) ==
    CASE c = "A" -> "a"
      [] c = "B" -> "b"
      [] c = "C" -> "c"
      [] OTHER -> c

toLowerCase(s) == [i \in 1..Len(s) |-> LowerChar(s[i])]

\* String.prototype.includes: k occurs in s at some position.
includes(s, k) ==
    \E i \in 0..(Len(s) - Len(k)) : SubSeq(s, i + 1, i + Len(k)) = k

\* Inputs the client passes.
Descriptions == { <<"B">>, <<"b", "A">> }
Tags == { <<"A">>, <<"a">>, <<"C">> \o SubSeq(Str_constructor, 2, 11) }
Keywords == { <<>>, <<"a">>, <<"B">> }
Indices == -1..MaxReminders

\* Property names every object literal {} inherits from Object.prototype and
\* that are their own lower-case form; groupings[tag] finds them.
ObjectPrototypeKeys == { Str_constructor }

(***************************************************************************)
(* class Reminder                                                          *)
(***************************************************************************)
\* constructor(description, tag, isCompleted): the third parameter is unused.
Reminder(description, tag, isCompleted) ==
    [description |-> description, tag |-> tag, isCompleted |-> FALSE]

\* set description(description)
setDescription(r, description) == [r EXCEPT !.description = description]

\* toggleCompletion(): assigns the present value, then throws.
Reminder_toggleCompletion(r) ==
    [obj |-> [r EXCEPT !.isCompleted = r.isCompleted], err |-> NotYetImplemented]

(***************************************************************************)
(* class RemindersHandler, src/src/RemindersHandler.ts                     *)
(***************************************************************************)
size == Len(_reminders)

\* isIndexValid with the lower test off by one (index <= 0 for index < 0).
isIndexValid_offByOne(index) ==
    IF size = 0 THEN FALSE
    ELSE IF index <= 0 \/ index + 1 > size THEN FALSE
    ELSE TRUE

isIndexValid(index) ==
    IF size = 0 THEN FALSE
    ELSE IF index < 0 \/ index + 1 > size THEN FALSE
    ELSE TRUE

searchTags(keyword) ==
    SelectSeq(_reminders, LAMBDA id : toLowerCase(heap[id].tag) = keyword)

\* searchDescriptions without lower-casing the description.
searchDescriptions_caseSensitive(keyword) ==
    SelectSeq(_reminders, LAMBDA id : includes(heap[id].description, keyword))

searchDescriptions(keyword) ==
    SelectSeq(_reminders,
              LAMBDA id : includes(toLowerCase(heap[id].description), keyword))

search_result(keyword) ==
    LET keywordLower == toLowerCase(keyword)
        results == searchTags(keywordLower)
    IN  IF Len(results) = 0 THEN searchDescriptions(keywordLower) ELSE results

\* groupings[tag] is truthy: an own array, or a property inherited by {}.
HasProperty(groupings, tag) ==
    tag \in DOMAIN groupings \/ tag \in ObjectPrototypeKeys

RECURSIVE groupByTag_loop(_, _)
groupByTag_loop(i, groupings) ==
    IF i > Len(_reminders) THEN [val |-> groupings, err |-> NoError]
    ELSE LET reminder == _reminders[i]
             tag == toLowerCase(heap[reminder].tag)
             g1 == IF ~HasProperty(groupings, tag)
                   THEN groupings @@ (tag :> <<>>)
                   ELSE groupings
         IN  IF tag \notin DOMAIN g1
             THEN [val |-> NoValue, err |-> TypeError]
             ELSE groupByTag_loop(i + 1, [g1 EXCEPT ![tag] = Append(@, reminder)])

groupByTag_result == groupByTag_loop(1, <<>>)

Init ==
    /\ impl \in {Main, P0}
    /\ heap = <<>>
    /\ _reminders = <<>>
    /\ list = [kind |-> "none", items |-> <<>>]
    /\ op = "constructor"
    /\ arg = <<>>
    /\ ret = NoValue
    /\ err = NoError

reminders ==
    /\ impl = Main
    /\ list' = [kind |-> "copy", items |-> _reminders]
    /\ op' = "reminders"
    /\ arg' = <<>>
    /\ ret' = NoValue
    /\ err' = NoError
    /\ UNCHANGED <<impl, heap, _reminders>>

\* addReminder putting the new reminder at the front (unshift for push).
addReminder_unshift ==
    /\ impl = Main
    /\ Len(heap) < MaxReminders
    /\ \E description \in Descriptions, tag \in Tags :
          LET newReminder == Len(heap) + 1
          IN  /\ heap' = Append(heap, Reminder(description, tag, FALSE))
              /\ _reminders' = <<newReminder>> \o _reminders
              /\ arg' = [description |-> description, tag |-> tag]
    /\ op' = "addReminder"
    /\ ret' = NoValue
    /\ err' = NoError
    /\ UNCHANGED <<impl, list>>

addReminder ==
    /\ impl = Main
    /\ Len(heap) < MaxReminders
    /\ \E description \in Descriptions, tag \in Tags :
          LET newReminder == Len(heap) + 1
          IN  /\ heap' = Append(heap, Reminder(description, tag, FALSE))
              /\ _reminders' = Append(_reminders, newReminder)
              /\ arg' = [description |-> description, tag |-> tag]
    /\ op' = "addReminder"
    /\ ret' = NoValue
    /\ err' = NoError
    /\ UNCHANGED <<impl, list>>

getReminder ==
    /\ impl = Main
    /\ \E index \in Indices :
          /\ arg' = [index |-> index]
          /\ IF ~isIndexValid(index)
             THEN ret' = NoValue /\ err' = InvalidIndex
             ELSE ret' = _reminders[index + 1] /\ err' = NoError
    /\ op' = "getReminder"
    /\ UNCHANGED <<impl, heap, _reminders, list>>

isIndexValid_call ==
    /\ impl = Main
    /\ \E index \in Indices :
          /\ arg' = [index |-> index]
          /\ ret' = isIndexValid(index)
    /\ op' = "isIndexValid"
    /\ err' = NoError
    /\ UNCHANGED <<impl, heap, _reminders, list>>

size_call ==
    /\ impl = Main
    /\ op' = "size"
    /\ arg' = <<>>
    /\ ret' = size
    /\ err' = NoError
    /\ UNCHANGED <<impl, heap, _reminders, list>>

modifyReminder ==
    /\ impl = Main
    /\ \E index \in Indices, description \in Descriptions :
          /\ arg' = [index |-> index, description |-> description]
          /\ IF ~isIndexValid(index)
             THEN heap' = heap
             ELSE LET reminder == _reminders[index + 1]
                  IN  heap' = [heap EXCEPT
                                 ![reminder] = setDescription(@, description)]
    /\ op' = "modifyReminder"
    /\ ret' = NoValue
    /\ err' = NoError
    /\ UNCHANGED <<impl, _reminders, list>>

toggleCompletion ==
    /\ impl = Main
    /\ \E index \in Indices :
          /\ arg' = [index |-> index]
          /\ IF ~isIndexValid(index)
             THEN heap' = heap /\ err' = NoError
             ELSE LET reminder == _reminders[index + 1]
                      done == Reminder_toggleCompletion(heap[reminder])
                  IN  /\ heap' = [heap EXCEPT ![reminder] = done.obj]
                      /\ err' = done.err
    /\ op' = "toggleCompletion"
    /\ ret' = NoValue
    /\ UNCHANGED <<impl, _reminders, list>>

search ==
    /\ impl = Main
    /\ \E keyword \in Keywords :
          /\ arg' = [keyword |-> keyword]
          /\ ret' = search_result(keyword)
    /\ op' = "search"
    /\ err' = NoError
    /\ UNCHANGED <<impl, heap, _reminders, list>>

groupByTag ==
    /\ impl = Main
    /\ op' = "groupByTag"
    /\ arg' = <<>>
    /\ ret' = groupByTag_result.val
    /\ err' = groupByTag_result.err
    /\ UNCHANGED <<impl, heap, _reminders, list>>

(***************************************************************************)
(* class RemindersHandler, src/unnamed/part_000                            *)
(* (its field _tag is read only by the private searchTags, which no method *)
(* calls, so it is not part of the state)                                  *)
(***************************************************************************)
size_p0 == Len(_reminders)

isIndexValid_p0(index) ==
    IF size_p0 = 0 THEN FALSE
    ELSE IF index < 0 \/ index + 1 > size_p0 THEN FALSE
    ELSE TRUE

search_result_p0(keyword) ==
    LET tagMatches == SelectSeq(_reminders, LAMBDA id : heap[id].tag = keyword)
        descriptionMatches ==
            SelectSeq(_reminders,
                      LAMBDA id : includes(toLowerCase(heap[id].description),
                                           toLowerCase(keyword)))
    IN  IF Len(tagMatches) > 0 THEN tagMatches ELSE descriptionMatches

RECURSIVE groupByTag_loop_p0(_, _)
groupByTag_loop_p0(i, groupings) ==
    IF i > Len(_reminders) THEN [val |-> groupings, err |-> NoError]
    ELSE LET reminder == _reminders[i]
             tag == heap[reminder].tag
         IN  IF ~HasProperty(groupings, tag)
             THEN groupByTag_loop_p0(i + 1, groupings @@ (tag :> <<>>))
             ELSE IF tag \notin DOMAIN groupings
             THEN [val |-> NoValue, err |-> TypeError]
             ELSE groupByTag_loop_p0(i + 1,
                      [groupings EXCEPT ![tag] = Append(@, reminder)])

groupByTag_result_p0 == groupByTag_loop_p0(1, <<>>)

\* get reminders(): returns the private array itself.
reminders_p0 ==
    /\ impl = P0
    /\ list' = [kind |-> "internal", items |-> <<>>]
    /\ op' = "reminders"
    /\ arg' = <<>>
    /\ ret' = NoValue
    /\ err' = NoError
    /\ UNCHANGED <<impl, heap, _reminders>>

\* this.reminders.push(reminder): the accessor hands back the private array.
addReminder_p0 ==
    /\ impl = P0
    /\ Len(heap) < MaxReminders
    /\ \E description \in Descriptions, tag \in Tags :
          LET reminder == Len(heap) + 1
          IN  /\ heap' = Append(heap, Reminder(description, tag, FALSE))
              /\ _reminders' = Append(_reminders, reminder)
              /\ arg' = [description |-> description, tag |-> tag]
    /\ op' = "addReminder"
    /\ ret' = NoValue
    /\ err' = NoError
    /\ UNCHANGED <<impl, list>>

getReminder_p0 ==
    /\ impl = P0
    /\ \E index \in Indices : arg' = [index |-> index]
    /\ op' = "getReminder"
    /\ ret' = NoValue
    /\ err' = NotYetImplemented
    /\ UNCHANGED <<impl, heap, _reminders, list>>

isIndexValid_call_p0 ==
    /\ impl = P0
    /\ \E index \in Indices :
          /\ arg' = [index |-> index]
          /\ ret' = isIndexValid_p0(index)
    /\ op' = "isIndexValid"
    /\ err' = NoError
    /\ UNCHANGED <<impl, heap, _reminders, list>>

size_call_p0 ==
    /\ impl = P0
    /\ op' = "size"
    /\ arg' = <<>>
    /\ ret' = size_p0
    /\ err' = NoError
    /\ UNCHANGED <<impl, heap, _reminders, list>>

modifyReminder_p0 ==
    /\ impl = P0
    /\ \E index \in Indices, description \in Descriptions :
          arg' = [index |-> index, description |-> description]
    /\ op' = "modifyReminder"
    /\ ret' = NoValue
    /\ err' = NotYetImplemented
    /\ UNCHANGED <<impl, heap, _reminders, list>>

toggleCompletion_p0 ==
    /\ impl = P0
    /\ \E index \in Indices : arg' = [index |-> index]
    /\ op' = "toggleCompletion"
    /\ ret' = NoValue
    /\ err' = NotYetImplemented
    /\ UNCHANGED <<impl, heap, _reminders, list>>

search_p0 ==
    /\ impl = P0
    /\ \E keyword \in Keywords :
          /\ arg' = [keyword |-> keyword]
          /\ ret' = search_result_p0(keyword)
    /\ op' = "search"
    /\ err' = NoError
    /\ UNCHANGED <<impl, heap, _reminders, list>>

groupByTag_p0 ==
    /\ impl = P0
    /\ op' = "groupByTag"
    /\ arg' = <<>>
    /\ ret' = groupByTag_result_p0.val
    /\ err' = groupByTag_result_p0.err
    /\ UNCHANGED <<impl, heap, _reminders, list>>

(***************************************************************************)
(* The client changes the array it got from the reminders accessor: it     *)
(* pushes a reference to the first Reminder constructed (which it holds),  *)
(* or pops the last element.                                               *)
(* kind "copy" is the fresh array of RemindersHandler.ts; kind "internal"  *)
(* is the handler's own array, which part_000 returns.                     *)
(***************************************************************************)
clientList == IF list.kind = "internal" THEN _reminders ELSE list.items

list_push ==
    /\ list.kind # "none"
    /\ Len(clientList) < MaxListLen
    /\ \E id \in {1} \cap DOMAIN heap :
          /\ arg' = [pushed |-> id]
          /\ IF list.kind = "internal"
             THEN /\ _reminders' = Append(_reminders, id)
                  /\ list' = list
             ELSE /\ list' = [list EXCEPT !.items = Append(@, id)]
                  /\ _reminders' = _reminders
    /\ op' = "list.push"
    /\ ret' = NoValue
    /\ err' = NoError
    /\ UNCHANGED <<impl, heap>>

list_pop ==
    /\ list.kind # "none"
    /\ Len(clientList) > 0
    /\ IF list.kind = "internal"
       THEN /\ _reminders' = SubSeq(_reminders, 1, Len(_reminders) - 1)
            /\ list' = list
       ELSE /\ list' = [list EXCEPT !.items = SubSeq(@, 1, Len(@) - 1)]
            /\ _reminders' = _reminders
    /\ op' = "list.pop"
    /\ arg' = <<>>
    /\ ret' = NoValue
    /\ err' = NoError
    /\ UNCHANGED <<impl, heap>>

Next ==
    \/ reminders
    \/ addReminder
    \/ getReminder
    \/ isIndexValid_call
    \/ size_call
    \/ modifyReminder
    \/ toggleCompletion
    \/ search
    \/ groupByTag
    \/ reminders_p0
    \/ addReminder_p0
    \/ getReminder_p0
    \/ isIndexValid_call_p0
    \/ size_call_p0
    \/ modifyReminder_p0
    \/ toggleCompletion_p0
    \/ search_p0
    \/ groupByTag_p0
    \/ list_push
    \/ list_pop

Spec == Init /\ [][Next]_vars

(***************************************************************************)
(* Vocabulary of the properties                                            *)
(***************************************************************************)
\* isIndexValid of the class that was constructed.
IsValid(i) == IF impl = Main THEN isIndexValid(i) ELSE isIndexValid_p0(i)

\* Operations of the handler (the others are the client's own array calls).
HandlerOps ==
    { "reminders", "addReminder", "getReminder", "isIndexValid", "size",
      "modifyReminder", "toggleCompletion", "search", "groupByTag" }

\* d contains k when both are compared case-insensitively.
ContainsCI(d, k) ==
    \E i \in 0..Len(d) : \E j \in i..Len(d) :
        toLowerCase(SubSeq(d, i + 1, j)) = toLowerCase(k)

TagEqualsCI(t, k) == toLowerCase(t) = toLowerCase(k)

TagHits(k) == SelectSeq(_reminders, LAMBDA id : TagEqualsCI(heap[id].tag, k))

DescriptionHits(k) ==
    SelectSeq(_reminders, LAMBDA id : ContainsCI(heap[id].description, k))

\* Every Reminder object other than id is as it was.
OthersUnchanged(id) ==
    /\ DOMAIN heap' = DOMAIN heap
    /\ \A j \in DOMAIN heap \ {id} : heap'[j] = heap[j]

(***************************************************************************)
(* C1: getReminder(i) throws the invalid-index error exactly when          *)
(* isIndexValid(i) is false; otherwise it throws nothing and returns the   *)
(* reminder that was the i-th added (object i + 1), as it now is.          *)
(***************************************************************************)
C1_Body ==
    op = "getReminder" =>
        /\ (err = InvalidIndex) <=> ~IsValid(arg.index)
        /\ IsValid(arg.index) =>
              /\ err = NoError
              /\ ret = arg.index + 1
              /\ ret = _reminders[arg.index + 1]

C1_GetReminder == C1_Body

\* C1 restricted to the class of RemindersHandler.ts.
C1_RemindersHandler_ts == impl = Main => C1_Body

(***************************************************************************)
(* C2: toggleCompletion(index) with a valid index throws nothing and flips *)
(* isCompleted of that reminder, leaving its description and tag and every *)
(* other reminder unchanged.                                               *)
(***************************************************************************)
C2_Step ==
    (op' = "toggleCompletion" /\ IsValid(arg'.index)) =>
        LET id == _reminders[arg'.index + 1]
        IN  /\ err' = NoError
            /\ heap'[id].isCompleted = ~heap[id].isCompleted
            /\ heap'[id].description = heap[id].description
            /\ heap'[id].tag = heap[id].tag
            /\ OthersUnchanged(id)
            /\ _reminders' = _reminders

C2_ToggleFlips == [][C2_Step]_vars

(***************************************************************************)
(* C3: modifyReminder(i, d) with a valid index leaves reminder i with      *)
(* description d, its tag and isCompleted as before, the sequence and      *)
(* every other reminder unchanged.                                         *)
(***************************************************************************)
C3_Step ==
    (op' = "modifyReminder" /\ IsValid(arg'.index)) =>
        LET id == _reminders[arg'.index + 1]
        IN  /\ heap'[id].description = arg'.description
            /\ heap'[id].tag = heap[id].tag
            /\ heap'[id].isCompleted = heap[id].isCompleted
            /\ OthersUnchanged(id)
            /\ _reminders' = _reminders

C3_ModifyValid == [][C3_Step]_vars

\* C3 restricted to the class of RemindersHandler.ts.
C3_RemindersHandler_ts == [][impl = Main => C3_Step]_vars

(***************************************************************************)
(* C4: modifyReminder and toggleCompletion with an invalid index throw     *)
(* nothing and leave the whole handler state unchanged.                    *)
(***************************************************************************)
C4_Step ==
    (op' \in {"modifyReminder", "toggleCompletion"} /\ ~IsValid(arg'.index)) =>
        /\ err' = NoError
        /\ heap' = heap
        /\ _reminders' = _reminders

C4_InvalidIndexNoOp == [][C4_Step]_vars

\* C4 restricted to the class of RemindersHandler.ts.
C4_RemindersHandler_ts == [][impl = Main => C4_Step]_vars

(***************************************************************************)
(* C5: when some stored tag equals the keyword case-insensitively,         *)
(* search(keyword) returns exactly the reminders whose tag matches that    *)
(* way, in sequence order, whatever the descriptions contain.              *)
(***************************************************************************)
C5_Body ==
    (op = "search" /\ TagHits(arg.keyword) # <<>>) =>
        /\ err = NoError
        /\ ret = TagHits(arg.keyword)

C5_SearchTagFirst == C5_Body

\* C5 restricted to the class of RemindersHandler.ts.
C5_RemindersHandler_ts == impl = Main => C5_Body

(***************************************************************************)
(* C6: when no stored tag equals the keyword case-insensitively,           *)
(* search(keyword) returns exactly the reminders whose description         *)
(* contains the keyword case-insensitively, in sequence order (possibly    *)
(* none); search never changes the handler state.                          *)
(***************************************************************************)
C6_Step ==
    op' = "search" =>
        /\ heap' = heap
        /\ _reminders' = _reminders
        /\ TagHits(arg'.keyword) = <<>> =>
              /\ err' = NoError
              /\ ret' = DescriptionHits(arg'.keyword)

C6_SearchDescriptionFallback == [][C6_Step]_vars

\* Two reminders, no tag matches, and only one description does.
C6_Witness ==
    /\ op = "search"
    /\ err = NoError
    /\ TagHits(arg.keyword) = <<>>
    /\ Len(_reminders) = 2
    /\ Len(ret) = 1
    /\ ret = DescriptionHits(arg.keyword)

(***************************************************************************)
(* C7: groupByTag() returns a mapping whose keys are exactly the           *)
(* lower-cased tags of the stored reminders, each stored reminder being    *)
(* in the group of its lower-cased tag, in sequence order.                 *)
(***************************************************************************)
C7_Body ==
    op = "groupByTag" =>
        /\ err = NoError
        /\ DOMAIN ret = { toLowerCase(heap[_reminders[i]].tag) :
                             i \in 1..Len(_reminders) }
        /\ \A k \in DOMAIN ret : ret[k] = TagHits(k)

C7_GroupByTag == C7_Body

\* C7 restricted to the class of RemindersHandler.ts.
C7_RemindersHandler_ts == impl = Main => C7_Body

\* ... and further to tags that are not property names of Object.prototype.
C7_RemindersHandler_ts_OwnKeys ==
    (impl = Main
       /\ \A id \in DOMAIN heap :
             toLowerCase(heap[id].tag) \notin ObjectPrototypeKeys)
    => C7_Body

(***************************************************************************)
(* C8: the array the reminders accessor returns is a copy: pushing to it   *)
(* or popping from it changes neither size() nor the stored sequence,      *)
(* while addReminder appends to the handler's own sequence.                *)
(***************************************************************************)
C8_Step ==
    /\ op' \in {"list.push", "list.pop"} =>
          /\ _reminders' = _reminders
          /\ Len(_reminders') = Len(_reminders)
    /\ op' = "addReminder" =>
          /\ Len(_reminders') = Len(_reminders) + 1
          /\ SubSeq(_reminders', 1, Len(_reminders)) = _reminders

C8_AccessorCopy == [][C8_Step]_vars

\* C8 restricted to the class of RemindersHandler.ts.
C8_RemindersHandler_ts == [][impl = Main => C8_Step]_vars

(***************************************************************************)
(* C9: addReminder always succeeds, appends one reminder with              *)
(* isCompleted = FALSE at the end and raises size() by one; no other       *)
(* handler operation changes or reorders the sequence; hence, as long as   *)
(* only handler operations act, size() is the number of addReminder calls  *)
(* (Len(heap): each call constructs one Reminder).                         *)
(***************************************************************************)
C9_Step ==
    op' \in HandlerOps =>
        /\ IF op' = "addReminder"
           THEN /\ err' = NoError
                /\ Len(_reminders') = Len(_reminders) + 1
                /\ SubSeq(_reminders', 1, Len(_reminders)) = _reminders
                /\ Len(heap') = Len(heap) + 1
                /\ _reminders'[Len(_reminders')] = Len(heap')
                /\ heap'[Len(heap')] = [description |-> arg'.description,
                                        tag |-> arg'.tag,
                                        isCompleted |-> FALSE]
           ELSE /\ _reminders' = _reminders
                /\ Len(heap') = Len(heap)
        /\ Len(_reminders) = Len(heap) => Len(_reminders') = Len(heap')
        /\ op' = "size" => ret' = Len(_reminders')

C9_SizeCountsAdds == [][C9_Step]_vars

\* The second addReminder has acted.
C9_Witness ==
    /\ op = "addReminder"
    /\ Len(heap) = 2
    /\ _reminders = <<1, 2>>
    /\ ~heap[2].isCompleted

(***************************************************************************)
(* C10: isIndexValid(i) is true exactly when 0 <= i < size(), for negative *)
(* i, i = size() and the empty handler too, and changes no state.          *)
(***************************************************************************)
C10_Step ==
    op' = "isIndexValid" =>
        /\ ret' = (0 <= arg'.index /\ arg'.index < Len(_reminders))
        /\ err' = NoError
        /\ heap' = heap
        /\ _reminders' = _reminders
        /\ list' = list

C10_IsIndexValid == [][C10_Step]_vars

\* isIndexValid answered TRUE for the last index of a two-element handler.
C10_Witness ==
    /\ op = "isIndexValid"
    /\ Len(_reminders) = 2
    /\ arg.index = 1
    /\ ret = TRUE
====
